---- MODULE Spec2Model ----
(***************************************************************************)
(* build-modules.py of taudac/tools: resolution of the pending kernel      *)
(* versions from the downstream (taudac/modules) and upstream              *)
(* (raspberrypi/firmware) commit feeds, and the per-version build          *)
(* pipeline with its confirmation gates and notifications.                 *)
(*                                                                         *)
(* A kernel version string "5.10.3" is the tuple <<5, 10, 3>>; two strings *)
(* are the same string iff their tuples are equal, so "5.10" and "5.10.0"  *)
(* are different strings that packaging.version ranks equal.  None is <<>>.*)
(***************************************************************************)
EXTENDS Integers, Sequences, FiniteSets, TLC

\* ------------------------------------------------------------- bounds
\* commits of the upstream history the walk can receive
MaxFeed == 4
\* largest value of --max-versions
MaxCap == 1

\* ------------------------------------------------------ input domains
NoVersion == <<>>

Versions == {<<5, 9>>, <<5, 9, 1>>, <<5, 10>>, <<5, 10, 0>>}

\* versions the downstream repository or the operator can name as baseline
Baselines == {<<5, 9>>, <<5, 10, 0>>}

\* version the operator can pass as --current-version
Overrides == {<<5, 9>>}

\* uname -m of the build host
Machines == {"armv7l", "aarch64", "x86_64"}

\* first lines of commit messages, by what the two regular expressions see:
\* subject "kernel" is 'kernel: Bump to <ver>', subject "taudac" is
\* 'taudac-<x> for <ver>', subject "other" matches neither.
UpstreamMessages ==
    [subject : {"kernel"}, ver : Versions] \cup {[subject |-> "other", ver |-> NoVersion]}

DownstreamMessages ==
    [subject : {"taudac"}, ver : Baselines] \cup {[subject |-> "other", ver |-> NoVersion]}

\* argparse namespace, lines 266-316; log_file is TRUE when a file is named,
\* max_versions is <<>> for None and <<N>> for the integer N
ArgSpace ==
    [assume_yes      : BOOLEAN,
     log_file        : BOOLEAN,
     max_versions    : {<<>>} \cup {<<k>> : k \in 0..MaxCap},
     current_version : {NoVersion} \cup Overrides,
     do_not_tag      : BOOLEAN,
     command         : {"email", "console"}]

RASPI32_SUFFIXES == <<"", "-v7", "-v7l">>
RASPI64_SUFFIXES == <<"-v8", "-v8-16k">>
\* a slip: the 64-bit variants listed first
RASPI_SUFFIXES_64First == RASPI64_SUFFIXES \o RASPI32_SUFFIXES

RASPI_SUFFIXES == RASPI32_SUFFIXES \o RASPI64_SUFFIXES

Range(s) == {s[i] : i \in 1..Len(s)}

\* -------------------------------------------------------------- state
VARIABLES
    args,       \* parsed command line
    machine,    \* main's machine: what uname -m answered, "" before line 213
    pc,         \* position in the script
    ckver,      \* latest supported kernel version (baseline)
    last_commits, \* main's last_commits, read by lines 158-168 only
    feed,       \* the commits firmware.__next__ has returned, newest first;
                \* firmware.n is their number. The iterator is not used
                \* after the loop of line 174: the record is kept until the
                \* pending list is sorted and is dropped at line 198
    pending,    \* main's pending list; an entry (sha, kver) is represented
                \* by kver, the sha being handed to the fetch script unread
    sortedAll,  \* value of pending after line 196 (before truncation)
    idx,        \* position of the for loop of line 201 in pending
    pv,         \* position of the for loop of line 216 in RASPI_SUFFIXES
    log,        \* external actions performed, in order
    http,       \* requests sent to the commit-listing endpoint
    code,       \* status of the last answer of the endpoint, 0 for none
    exc,        \* exception travelling to the outer handlers
    fatal,      \* first failure of the run
    status      \* process exit status, -1 while running

vars == <<args, machine, pc, ckver, last_commits, feed, pending, sortedAll,
          idx, pv, log, http, code, exc, fatal, status>>

\* firmware.n
n == Len(feed)

\* ------------------------------------------------- packaging.version
RECURSIVE StripZeros(_)
\* packaging drops trailing zeros of the release before comparing
StripZeros(v) ==
    IF v = <<>> THEN <<>>
    ELSE IF v[Len(v)] = 0 THEN StripZeros(SubSeq(v, 1, Len(v) - 1))
    ELSE v

RECURSIVE TupleLess(_, _)
\* Python's tuple order on integers
TupleLess(a, b) ==
    IF b = <<>> THEN FALSE
    ELSE IF a = <<>> THEN TRUE
    ELSE IF a[1] # b[1] THEN a[1] < b[1]
    ELSE TupleLess(Tail(a), Tail(b))

RECURSIVE Digits(_)
\* the decimal numeral of x, one digit per character
Digits(x) == IF x < 10 THEN <<x>> ELSE Digits(x \div 10) \o <<x % 10>>

RECURSIVE Chars(_)
\* the characters of a version string; '.' sorts before every digit and
\* is written -1
Chars(v) ==
    IF v = <<>> THEN <<>>
    ELSE IF Len(v) = 1 THEN Digits(v[1])
    ELSE Digits(v[1]) \o <<-1>> \o Chars(Tail(v))

\* a slip: the version strings compared as strings, without version.parse
VersionLessAsStrings(a, b) == TupleLess(Chars(a), Chars(b))

\* version.parse(a) < version.parse(b), lines 178 and 196
VersionLess(a, b) == TupleLess(StripZeros(a), StripZeros(b))
VersionEq(a, b) == StripZeros(a) = StripZeros(b)
VersionLeq(a, b) == VersionLess(a, b) \/ VersionEq(a, b)

\* ------------------------------------------------------ GitHubRepo.log
\* what the commit-listing endpoint can answer to a request for max_count
\* commits taken from the message set msgs
HttpResponses(max_count, msgs) ==
    [kind : {"HTTPError"}, code : {403, 404}, commits : {<<>>}]
    \cup [kind : {"URLError"}, code : {0}, commits : {<<>>}]
    \cup [kind : {"ok"}, code : {200},
          commits : UNION {[1..k -> msgs] : k \in 0..max_count}]

\* a slip: the 403 branch gives up quietly and log() answers None
HttpLogReturnsNoneOn403(resp) ==
    IF resp.kind = "HTTPError"
    THEN IF resp.code = 403
         THEN [ctl |-> "none", guidance |-> TRUE, messages |-> <<>>]
         ELSE [ctl |-> "exit", guidance |-> FALSE, messages |-> <<>>]
    ELSE IF resp.kind = "URLError"
    THEN [ctl |-> "raise", guidance |-> FALSE, messages |-> <<>>]
    ELSE [ctl |-> "return", guidance |-> FALSE, messages |-> resp.commits]

\* log(): every HTTPError ends in sys.exit(1), with the rate-limit guidance
\* printed for 403 only; any other URLError is printed and raised again;
\* otherwise the first lines of the commits are returned.
HttpLog(resp) ==
    IF resp.kind = "HTTPError"
    THEN [ctl |-> "exit", guidance |-> (resp.code = 403), messages |-> <<>>]
    ELSE IF resp.kind = "URLError"
    THEN [ctl |-> "raise", guidance |-> FALSE, messages |-> <<>>]
    ELSE [ctl |-> "return", guidance |-> FALSE, messages |-> resp.commits]

\* failure class of an HTTPError
HttpFatal(resp) == IF resp.code = 403 THEN "RateLimited" ELSE "HTTPError"

\* re.match(r'taudac-.* for ([\d\.]+)', msg): the version, or None
TaudacMatch(msg) == IF msg.subject = "taudac" THEN msg.ver ELSE NoVersion

\* re.match(r'kernel:? ([Bb]ump|[Uu]pdate) to ([\d\.]+)', msg)
KernelMatch(msg) == IF msg.subject = "kernel" THEN msg.ver ELSE NoVersion

RECURSIVE OldestTaudacVersion(_)
\* a slip: the loop of lines 161-165 without its break keeps the last match
OldestTaudacVersion(commits) ==
    IF commits = <<>> THEN NoVersion
    ELSE IF OldestTaudacVersion(Tail(commits)) # NoVersion
    THEN OldestTaudacVersion(Tail(commits))
    ELSE TaudacMatch(commits[1])

RECURSIVE FirstTaudacVersion(_)
\* the for/else of lines 161-168: version of the first matching commit
FirstTaudacVersion(commits) ==
    IF commits = <<>> THEN NoVersion
    ELSE IF TaudacMatch(commits[1]) # NoVersion THEN TaudacMatch(commits[1])
    ELSE FirstTaudacVersion(Tail(commits))

\* the process ends: sys.exit, an uncaught exception, or the end of the script
Exit(rc, cause) ==
    /\ pc' = "exit"
    /\ status' = rc
    /\ fatal' = cause

\* lines 153-160: the override, or taudac.log(2)
ReadTaudacLog ==
    /\ pc = "baseline"
    /\ IF args.current_version # NoVersion
       THEN /\ ckver' = args.current_version
            /\ pc' = "walk"
            /\ UNCHANGED <<last_commits, http, code, status, fatal>>
       ELSE \E resp \in HttpResponses(2, DownstreamMessages) :
              LET r == HttpLog(resp) IN
              /\ http' = http + 1
              /\ code' = resp.code
              /\ UNCHANGED ckver
              /\ IF r.ctl = "exit"
                 THEN Exit(1, HttpFatal(resp)) /\ UNCHANGED last_commits
                 ELSE IF r.ctl = "raise"
                 THEN Exit(1, "URLError") /\ UNCHANGED last_commits
                 ELSE IF r.ctl = "none"
                 THEN Exit(0, "LogFailed") /\ UNCHANGED last_commits
                 ELSE /\ last_commits' = r.messages
                      /\ pc' = "scan"
                      /\ UNCHANGED <<status, fatal>>
    /\ UNCHANGED <<args, machine, feed, pending, sortedAll, idx, pv, log, exc>>

\* lines 161-170; last_commits is not read again
FindBaseline ==
    /\ pc = "scan"
    /\ last_commits' = <<>>
    /\ IF FirstTaudacVersion(last_commits) # NoVersion
       THEN /\ ckver' = FirstTaudacVersion(last_commits)
            /\ pc' = "walk"
            /\ UNCHANGED <<status, fatal>>
       ELSE /\ Exit(0, "BaselineNotFound")
            /\ UNCHANGED ckver
    /\ UNCHANGED <<args, machine, feed, pending, sortedAll, idx, pv, log, http, code, exc>>

\* a slip: '<' where line 178 has '<='
IsStopStrict(nkver, base) == VersionLess(nkver, base)

\* line 178: the announcement ends the walk
IsStop(nkver, base) == VersionLeq(nkver, base)

\* a slip: the duplicate test of line 180 never fires
AlreadyPendingNever(nkver, pend) == FALSE

\* line 180: the announced string is already in the pending list
AlreadyPending(nkver, pend) == nkver \in Range(pend)

\* lines 174-184: one firmware.__next__() and the loop body on its commit
WalkStep ==
    /\ pc = "walk"
    /\ \E resp \in HttpResponses(1, UpstreamMessages) :
         LET r == HttpLog(resp) IN
         /\ resp.kind = "ok" /\ resp.commits # <<>> => n < MaxFeed
         /\ http' = http + 1
         /\ code' = resp.code
         /\ IF r.ctl = "exit"
            THEN Exit(1, HttpFatal(resp)) /\ UNCHANGED <<feed, pending>>
            ELSE IF r.ctl = "raise"
            THEN Exit(1, "URLError") /\ UNCHANGED <<feed, pending>>
            ELSE IF r.ctl = "none"
            THEN \* StopIteration: the for loop ends
                 /\ pc' = "resolved"
                 /\ UNCHANGED <<feed, pending, status, fatal>>
            ELSE IF r.messages = <<>>
            THEN \* ret[0] of an empty list: IndexError, not caught
                 Exit(1, "IndexError") /\ UNCHANGED <<feed, pending>>
            ELSE LET c == r.messages[1]
                     nkver == KernelMatch(c)
                 IN  /\ feed' = Append(feed, c)
                     /\ UNCHANGED <<status, fatal>>
                     /\ IF nkver = NoVersion
                        THEN pc' = "walk" /\ UNCHANGED pending
                        ELSE IF IsStop(nkver, ckver)
                        THEN pc' = "resolved" /\ UNCHANGED pending
                        ELSE IF AlreadyPending(nkver, pending)
                        THEN pc' = "walk" /\ UNCHANGED pending
                        ELSE /\ pc' = "walk"
                             /\ pending' = Append(pending, nkver)
    /\ UNCHANGED <<args, machine, ckver, last_commits, sortedAll, idx, pv, log, exc>>

\* ------------------------------------------------- external actions
\* one entry of log: op is the command, prompt or message; kver the pending
\* entry it belongs to (NoVersion outside the per-version loop); arg the
\* target suffix, the operator's answer or the command a note names; cross
\* the cross-compilation overrides of a make; res the outcome
Event(op, kver, arg, cross, res) ==
    [op |-> op, kver |-> kver, arg |-> arg, cross |-> cross, res |-> res]

\* what the operator can type at a prompt (anything else asks again)
Choices == {"y", "n"}

\* a slip: every answer is taken for a yes
QueryYesNoAlwaysYes(assume_yes, choice) == TRUE

\* query_yes_no, lines 103-118
QueryYesNo(assume_yes, choice) ==
    IF assume_yes THEN TRUE
    ELSE IF choice \in {"yes", "y", ""} THEN TRUE
    ELSE IF choice \in {"no", "n"} THEN FALSE
    ELSE FALSE

\* what one prompt leaves in log
Asked(op, kver, choice) ==
    Event(op, kver, IF args.assume_yes THEN "assume_yes" ELSE choice, "none", "answered")

\* outcomes of one subprocess.check_call
CheckCall(timeout) ==
    IF timeout THEN {"ok", "error", "expired"} ELSE {"ok", "error"}

\* the check_calls one call() makes, lines 124-127: with a log file the
\* command runs with its output in the file and, if that run succeeded,
\* runs again
CallRuns(log_file, timeout) ==
    IF log_file
    THEN {<<r>> : r \in CheckCall(timeout) \ {"ok"}}
         \cup {<<"ok", r>> : r \in CheckCall(timeout)}
    ELSE {<<r>> : r \in CheckCall(timeout)}

\* a slip: a failed command is not raised
CallIgnoresError(res) ==
    IF res = "expired" THEN "TimeoutExpired" ELSE "none"

\* a slip: an expired command is not raised
CallIgnoresTimeout(res) ==
    IF res = "error" THEN "CalledProcessError" ELSE "none"

\* what check_call raises for an outcome
CallRaises(res) ==
    IF res = "error" THEN "CalledProcessError"
    ELSE IF res = "expired" THEN "TimeoutExpired"
    ELSE "none"

\* call(cmd, **kwargs), lines 121-127, followed by the jump it causes: to
\* next when nothing is raised, to the handlers of lines 320-325 otherwise
Call(op, kver, arg, cross, timeout, next) ==
    \E runs \in CallRuns(args.log_file, timeout) :
        LET raised == CallRaises(runs[Len(runs)]) IN
        /\ log' = log \o [i \in 1..Len(runs) |->
                            Event(op, kver, arg, cross, runs[i])]
        /\ IF raised = "none"
           THEN pc' = next /\ UNCHANGED <<exc, fatal>>
           ELSE /\ pc' = "except"
                /\ exc' = [type |-> raised, cmd |-> op, kver |-> kver]
                /\ fatal' = raised

\* line 186-188
UpToDate ==
    /\ pc = "resolved"
    /\ pending = <<>>
    /\ Exit(0, "none")
    /\ UNCHANGED <<args, machine, ckver, last_commits, feed, pending, sortedAll,
                   idx, pv, log, http, code, exc>>

\* lines 186, 190-191
ConfirmBuild ==
    /\ pc = "resolved"
    /\ pending # <<>>
    /\ \E choice \in Choices :
         /\ log' = Append(log, Asked("ask_build", NoVersion, choice))
         /\ IF QueryYesNo(args.assume_yes, choice)
            THEN pc' = "pull" /\ UNCHANGED <<status, fatal>>
            ELSE Exit(0, "none")
    /\ UNCHANGED <<args, machine, ckver, last_commits, feed, pending, sortedAll,
                   idx, pv, http, code, exc>>

\* lines 193-194
Pull ==
    /\ pc = "pull"
    /\ Call("pull", NoVersion, "", "none", FALSE, "sort")
    /\ UNCHANGED <<args, machine, ckver, last_commits, feed, pending, sortedAll,
                   idx, pv, http, code, status>>

RECURSIVE InsertByVersion(_, _)
\* e placed behind every entry whose version is not greater
InsertByVersion(e, s) ==
    IF s = <<>> THEN <<e>>
    ELSE IF VersionLess(e, s[1]) THEN <<e>> \o s
    ELSE <<s[1]>> \o InsertByVersion(e, Tail(s))

RECURSIVE SortedPrefix(_, _)
SortedPrefix(p, k) ==
    IF k = 0 THEN <<>> ELSE InsertByVersion(p[k], SortedPrefix(p, k - 1))

\* a slip: the list is left in discovery order
SortPendingMissing(p) == p

\* line 196: sorted(pending, key=version.parse), a stable sort
SortPending(p) == SortedPrefix(p, Len(p))

\* Python's p[:k]
SliceTo(p, k) ==
    LET m == IF k < 0 THEN Len(p) + k ELSE k
        len == IF m < 0 THEN 0 ELSE IF m > Len(p) THEN Len(p) ELSE m
    IN  SubSeq(p, 1, len)

\* lines 197-198: None and 0 are both falsy and leave the list whole
Truncate(p, max_versions) ==
    IF max_versions # <<>> /\ max_versions[1] # 0
    THEN SliceTo(p, max_versions[1])
    ELSE p

\* line 196
Sort ==
    /\ pc = "sort"
    /\ pending' = SortPending(pending)
    /\ pc' = "truncate"
    /\ UNCHANGED <<args, machine, ckver, last_commits, feed, sortedAll, idx, pv,
                   log, http, code, exc, fatal, status>>

\* lines 197-198, up to the for of line 201
TruncateStep ==
    /\ pc = "truncate"
    /\ sortedAll' = pending
    /\ pending' = Truncate(pending, args.max_versions)
    /\ feed' = <<>>
    /\ idx' = 1
    /\ pc' = "fetch"
    /\ UNCHANGED <<args, machine, ckver, last_commits, pv, log, http, code, exc,
                   fatal, status>>

\* line 201 with the list used up: main returns and the script ends
MainReturns ==
    /\ pc = "fetch"
    /\ idx > Len(pending)
    /\ Exit(0, "none")
    /\ UNCHANGED <<args, machine, ckver, last_commits, feed, pending, sortedAll,
                   idx, pv, log, http, code, exc>>

\* lines 201-208
Fetch ==
    /\ pc = "fetch"
    /\ idx <= Len(pending)
    /\ Call("get-rpi-kernel-sources", pending[idx], "", "none", FALSE, "clean")
    /\ UNCHANGED <<args, machine, ckver, last_commits, feed, pending, sortedAll,
                   idx, pv, http, code, status>>

\* lines 209-213: rmtree(ignore_errors=True), then uname -m
Clean ==
    /\ pc = "clean"
    /\ log' = Append(log, Event("rmtree", pending[idx], "", "none", "ok"))
    /\ machine' \in Machines
    /\ machine = "" \/ machine' = machine   \* one host for the whole run
    /\ pv' = 1
    /\ pc' = "make"
    /\ UNCHANGED <<args, ckver, last_commits, feed, pending, sortedAll,
                   idx, http, code, exc, fatal, status>>

\* re.match(IS_RASPI32_RE, machine), line 21
IsRaspi32(m) == m \in {"armv6l", "armv6hf", "armv7l", "armv7hf"}

\* re.match(IS_RASPI64_RE, machine), line 22
IsRaspi64(m) == m = "aarch64"

\* a slip: the 64-bit branch repeats the test of the 32-bit branch
CrossCompileArgsOneTest(pver, m) ==
    IF pver \in Range(RASPI32_SUFFIXES)
    THEN IF ~IsRaspi32(m) THEN "CROSS_COMPILE_ARGS_32" ELSE "none"
    ELSE IF pver \in Range(RASPI64_SUFFIXES)
    THEN IF ~IsRaspi32(m) THEN "CROSS_COMPILE_ARGS_64" ELSE "none"
    ELSE "none"

\* lines 217-224
CrossCompileArgs(pver, m) ==
    IF pver \in Range(RASPI32_SUFFIXES)
    THEN IF ~IsRaspi32(m) THEN "CROSS_COMPILE_ARGS_32" ELSE "none"
    ELSE IF pver \in Range(RASPI64_SUFFIXES)
    THEN IF ~IsRaspi64(m) THEN "CROSS_COMPILE_ARGS_64" ELSE "none"
    ELSE "none"

\* lines 216-231: one turn of the loop over RASPI_SUFFIXES
Make ==
    /\ pc = "make"
    /\ Call("make", pending[idx], RASPI_SUFFIXES[pv],
            CrossCompileArgs(RASPI_SUFFIXES[pv], machine), FALSE,
            IF pv = Len(RASPI_SUFFIXES) THEN "add" ELSE "make")
    /\ pv' = IF pc' = "make" THEN pv + 1 ELSE pv
    /\ UNCHANGED <<args, machine, ckver, last_commits, feed, pending, sortedAll,
                   idx, http, code, status>>

\* lines 232-233
GitAdd ==
    /\ pc = "add"
    /\ Call("add", pending[idx], "", "none", FALSE, "commit")
    /\ UNCHANGED <<args, machine, ckver, last_commits, feed, pending, sortedAll,
                   idx, pv, http, code, status>>

\* lines 234-237: the marker file is read, then git commit
Commit ==
    /\ pc = "commit"
    /\ \/ /\ Call("commit", pending[idx], "", "none", FALSE, "tag")
          /\ UNCHANGED status
       \/ \* the marker file cannot be opened: the OSError is not caught
          /\ Exit(1, "OSError")
          /\ UNCHANGED <<log, exc>>
    /\ UNCHANGED <<args, machine, ckver, last_commits, feed, pending, sortedAll,
                   idx, pv, http, code>>

\* lines 238-241
Tag ==
    /\ pc = "tag"
    /\ IF args.do_not_tag
       THEN pc' = "log" /\ UNCHANGED <<log, exc, fatal>>
       ELSE Call("tag", pending[idx], "", "none", FALSE, "log")
    /\ UNCHANGED <<args, machine, ckver, last_commits, feed, pending, sortedAll,
                   idx, pv, http, code, status>>

\* line 243
ShowOutgoing ==
    /\ pc = "log"
    /\ Call("log", pending[idx], "", "none", FALSE, "publish")
    /\ UNCHANGED <<args, machine, ckver, last_commits, feed, pending, sortedAll,
                   idx, pv, http, code, status>>

\* line 244
ConfirmPublish ==
    /\ pc = "publish"
    /\ \E choice \in Choices :
         /\ log' = Append(log, Asked("ask_publish", pending[idx], choice))
         /\ pc' = IF QueryYesNo(args.assume_yes, choice) THEN "push" ELSE "done"
    /\ UNCHANGED <<args, machine, ckver, last_commits, feed, pending, sortedAll,
                   idx, pv, http, code, exc, fatal, status>>

\* line 245
Push ==
    /\ pc = "push"
    /\ Call("push", pending[idx], "", "none", TRUE, "pushtags")
    /\ UNCHANGED <<args, machine, ckver, last_commits, feed, pending, sortedAll,
                   idx, pv, http, code, status>>

\* line 246
PushTags ==
    /\ pc = "pushtags"
    /\ Call("push --tags", pending[idx], "", "none", TRUE, "done")
    /\ UNCHANGED <<args, machine, ckver, last_commits, feed, pending, sortedAll,
                   idx, pv, http, code, status>>

\* outcomes of send_email, lines 79-100: delivered, or an SMTP/OS error
SendEmail == {"ok", "error"}

\* variant of notify_done that prints the body only when it is not mailed
DoneReportMailOnly(kver, command, sent) ==
    IF command = "email"
    THEN <<Event("email_done", kver, "", "none", sent)>>
    ELSE <<Event("print_done", kver, "", "none", "ok")>>

\* notify_done, lines 130-135: the body is printed (line 133), then mailed
\* when the command is 'email' (lines 134-135)
DoneReport(kver, command, sent) ==
    <<Event("print_done", kver, "", "none", "ok")>> \o
    (IF command = "email"
     THEN <<Event("email_done", kver, "", "none", sent)>>
     ELSE <<>>)

\* lines 247-248 and notify_done, lines 130-135
NotifyDone ==
    /\ pc = "done"
    /\ IF args.command = "email"
       THEN \E sent \in SendEmail :
              /\ log' = log \o DoneReport(pending[idx], args.command, sent)
              /\ IF sent = "ok"
                 THEN pc' = "fetch" /\ idx' = idx + 1 /\ UNCHANGED <<status, fatal>>
                 ELSE Exit(1, "SMTPError") /\ UNCHANGED idx
       ELSE /\ log' = log \o DoneReport(pending[idx], args.command, "ok")
            /\ pc' = "fetch"
            /\ idx' = idx + 1
            /\ UNCHANGED <<status, fatal>>
    /\ UNCHANGED <<args, machine, ckver, last_commits, feed, pending, sortedAll,
                   pv, http, code, exc>>

\* the note of lines 321 and 324
Note(e) ==
    IF e.type = "CalledProcessError" THEN "returned error code" ELSE "expired"

\* variant of notify_except that mails the note before printing it
ExceptReportMailFirst(e, command, log_file, sent) ==
    (IF command = "email"
     THEN <<Event("email_note", e.kver, e.cmd,
                  IF log_file THEN "log_file" ELSE "none", sent)>>
     ELSE <<>>) \o
    <<Event("print_note", e.kver, e.cmd, "none", Note(e))>>

\* notify_except, lines 138-145: the note is printed (line 139), then
\* mailed, with the log file when one is configured, when the command is
\* 'email' (lines 140-145)
ExceptReport(e, command, log_file, sent) ==
    <<Event("print_note", e.kver, e.cmd, "none", Note(e))>> \o
    (IF command = "email"
     THEN <<Event("email_note", e.kver, e.cmd,
                  IF log_file THEN "log_file" ELSE "none", sent)>>
     ELSE <<>>)

\* lines 320-325 and notify_except, lines 138-145; the script ends after it
NotifyExcept ==
    /\ pc = "except"
    /\ IF args.command = "email"
       THEN \E sent \in SendEmail :
              /\ log' = log \o ExceptReport(exc, args.command, args.log_file, sent)
              /\ Exit(IF sent = "ok" THEN 0 ELSE 1, fatal)
       ELSE /\ log' = log \o ExceptReport(exc, args.command, args.log_file, "ok")
            /\ Exit(0, fatal)
    /\ UNCHANGED <<args, machine, ckver, last_commits, feed, pending, sortedAll,
                   idx, pv, http, code, exc>>

\* ------------------------------------------------------ specification
Init ==
    /\ args \in ArgSpace
    /\ machine = ""
    /\ pc = "baseline"
    /\ ckver = NoVersion
    /\ last_commits = <<>>
    /\ feed = <<>>
    /\ pending = <<>>
    /\ sortedAll = <<>>
    /\ idx = 0
    /\ pv = 0
    /\ log = <<>>
    /\ http = 0
    /\ code = 0
    /\ exc = [type |-> "none", cmd |-> "none", kver |-> NoVersion]
    /\ fatal = "none"
    /\ status = -1

Next ==
    \/ ReadTaudacLog
    \/ FindBaseline
    \/ WalkStep
    \/ UpToDate
    \/ ConfirmBuild
    \/ Pull
    \/ Sort
    \/ TruncateStep
    \/ MainReturns
    \/ Fetch
    \/ Clean
    \/ Make
    \/ GitAdd
    \/ Commit
    \/ Tag
    \/ ShowOutgoing
    \/ ConfirmPublish
    \/ Push
    \/ PushTags
    \/ NotifyDone
    \/ NotifyExcept

Spec == Init /\ [][Next]_vars

\* ---------------------------------------------------------- properties
\* positions of log holding an event of command op for version kver
EventsOf(op, kver) == {i \in 1..Len(log) : log[i].op = op /\ log[i].kver = kver}

\* the command op was run to success for version kver
Succeeded(op, kver) == \E i \in EventsOf(op, kver) : log[i].res = "ok"

\* positions of feed that announce a kernel version
Announcements == {i \in 1..Len(feed) : KernelMatch(feed[i]) # NoVersion}

\* positions of feed announcing a version that is not newer than the baseline
StopAnnouncements ==
    {i \in Announcements : ~VersionLess(ckver, KernelMatch(feed[i]))}

\* position of the first such announcement, Len(feed) + 1 if there is none
FirstStop ==
    IF StopAnnouncements = {} THEN Len(feed) + 1
    ELSE CHOOSE i \in StopAnnouncements : \A j \in StopAnnouncements : i <= j

\* version strings announced before the first stop
AnnouncedBeforeStop ==
    {KernelMatch(feed[i]) : i \in {j \in Announcements : j < FirstStop}}

\* s ascends by version
Ascending(s) ==
    \A i, j \in 1..Len(s) : i < j => ~VersionLess(s[j], s[i])

\* requests the resolution has sent when every one of them was answered
ResolutionRequests ==
    (IF args.current_version = NoVersion THEN 1 ELSE 0) + Len(feed)

\* C1: the pending list as sorted at line 196, before truncation, holds
\* exactly the version strings announced by the commits that precede the
\* first announcement <= baseline, each once, ascending by version; while
\* the walk goes on no announcement <= baseline has been met and every
\* announced string is pending once (a duplicate does not stop the walk);
\* the walk ends on the first announcement <= baseline.
C1_PendingIsAnnouncedBeforeStop ==
    /\ pc = "walk" =>
          /\ StopAnnouncements = {}
          /\ Range(pending) = AnnouncedBeforeStop
          /\ Len(pending) = Cardinality(AnnouncedBeforeStop)
    /\ pc \in {"resolved", "pull", "sort", "truncate"} =>
          /\ StopAnnouncements = {Len(feed)}
          /\ Range(pending) = AnnouncedBeforeStop
    /\ pc = "truncate" =>
          /\ Len(pending) = Cardinality(AnnouncedBeforeStop)
          /\ Ascending(pending)

\* C1 witness: a newer version, then an older one announced twice, then
\* the baseline's own version, resolved to the two versions oldest first
C1_Witness ==
    /\ pc = "truncate"
    /\ ckver = <<5, 10, 0>> \/ ckver = <<5, 9>>
    /\ Len(feed) = 4
    /\ KernelMatch(feed[1]) = <<5, 10>>
    /\ KernelMatch(feed[2]) = <<5, 9, 1>>
    /\ KernelMatch(feed[3]) = <<5, 9, 1>>
    /\ KernelMatch(feed[4]) = <<5, 9>>
    /\ pending = << <<5, 9, 1>>, <<5, 10>> >>

\* the build step of the k-th pending version failed
BuildFailedAt(k) ==
    /\ k \in 1..Len(pending)
    /\ \E i \in EventsOf("make", pending[k]) : log[i].res = "error"

\* nothing at all was done for version kver
Untouched(kver) == \A i \in 1..Len(log) : log[i].kver # kver

\* C2 as stated: when the build of the k-th pending version fails, every
\* earlier version is committed and tagged, the failing one is neither
\* committed, tagged nor pushed, and nothing is done for a later one.
C2_AsStated ==
    \A k \in 1..Len(pending) :
        BuildFailedAt(k) =>
            /\ \A j \in 1..(k - 1) :
                   Succeeded("commit", pending[j]) /\ Succeeded("tag", pending[j])
            /\ \A op \in {"commit", "tag", "push", "push --tags"} :
                   EventsOf(op, pending[k]) = {}
            /\ \A j \in (k + 1)..Len(pending) : Untouched(pending[j])

\* C2 amended: as C2, with an earlier version tagged unless tagging is
\* disabled (--do-not-tag), in which case no tag command is run at all.
C2_BuildFailureStopsRun ==
    \A k \in 1..Len(pending) :
        BuildFailedAt(k) =>
            /\ \A j \in 1..(k - 1) :
                   /\ Succeeded("commit", pending[j])
                   /\ IF args.do_not_tag
                      THEN EventsOf("tag", pending[j]) = {}
                      ELSE Succeeded("tag", pending[j])
            /\ \A op \in {"commit", "tag", "push", "push --tags"} :
                   EventsOf(op, pending[k]) = {}
            /\ \A j \in (k + 1)..Len(pending) : Untouched(pending[j])
            /\ pc \in {"except", "exit"}

\* C2 witness: the build of the second of three pending versions failed and
\* the run has ended, with the first version committed and tagged
C2_Witness ==
    /\ pc = "exit"
    /\ Len(pending) = 3
    /\ BuildFailedAt(2)
    /\ Succeeded("commit", pending[1])
    /\ Succeeded("tag", pending[1])

\* the operator answered no to 'Do you want to build new modules?'
DeclinedBuild ==
    \E i \in 1..Len(log) : log[i].op = "ask_build" /\ log[i].arg = "n"

\* C3: once the operator has declined the whole-run prompt, the prompt is
\* the only external action of the run (no pull, fetch, clean, build,
\* commit, tag, push or notification), no request is sent to the endpoint
\* (those sent are the commit-listing reads that resolved the list before
\* the prompt), and the process has ended with status 0 and no failure.
C3_DeclineHasNoEffects ==
    DeclinedBuild =>
        /\ Len(log) = 1
        /\ http = ResolutionRequests
        /\ pc = "exit"
        /\ status = 0
        /\ fatal = "none"

\* C3 witness: two versions were pending when the operator declined
C3_Witness ==
    /\ DeclinedBuild
    /\ Len(pending) = 2
    /\ pc = "exit"

\* C4: a 403 answer ends the run at once: the request it answers is the
\* last one (every earlier one delivered what the resolution holds), no
\* prompt was shown and no pipeline step run, and the process has ended
\* with status 1.
C4_RateLimitEndsRun ==
    code = 403 =>
        /\ pc = "exit"
        /\ status = 1
        /\ log = <<>>
        /\ http = IF ckver = NoVersion THEN 1 ELSE ResolutionRequests + 1

\* C4 witness: the 403 arrives when two pending versions are identified
C4_Witness ==
    /\ code = 403
    /\ Len(pending) = 2
    /\ pc = "exit"

\* the newest announcement of the upstream feed names the baseline's version
BaselineIsNewest ==
    /\ Announcements # {}
    /\ LET first == CHOOSE i \in Announcements : \A j \in Announcements : i <= j
       IN  VersionEq(KernelMatch(feed[first]), ckver)

\* C5: when the newest upstream announcement is the baseline's version the
\* pending list is empty and nothing external is done (no prompt, pull,
\* fetch, build, commit, tag, push or notification); the run ends with
\* status 0.
C5_UpToDateDoesNothing ==
    BaselineIsNewest =>
        /\ pending = <<>>
        /\ log = <<>>
        /\ pc \in {"resolved", "exit"}
        /\ pc = "exit" => status = 0 /\ fatal = "none"

\* C5 witness: an unrelated commit, then the baseline's version announced
\* in another spelling; the run has ended
C5_Witness ==
    /\ BaselineIsNewest
    /\ Len(feed) = 2
    /\ KernelMatch(feed[1]) = NoVersion
    /\ feed[2].ver = <<5, 10>>
    /\ ckver = <<5, 10, 0>>
    /\ pc = "exit"

Min(a, b) == IF a < b THEN a ELSE b

\* C6 as stated: with a maximum count N supplied, the list the for loop of
\* line 201 runs over is the oldest min(N, length) entries of the sorted
\* pending list, for every integer N, 0 included.
C6_AsStated ==
    (sortedAll # <<>> /\ args.max_versions # <<>>) =>
        pending = SubSeq(sortedAll, 1, Min(args.max_versions[1], Len(sortedAll)))

\* the failures the error taxonomy names, as fatal records them
FatalConditions ==
    {"RateLimited", "HTTPError", "URLError", "BaselineNotFound",
     "CalledProcessError", "TimeoutExpired"}

\* notify_except has printed its note
FailureNotified == \E i \in 1..Len(log) : log[i].op = "print_note"

\* the failures that reach the handlers of lines 320-325
CaughtConditions == {"CalledProcessError", "TimeoutExpired"}

\* C7 as stated: a run that ends after a failed command, an expired push, a
\* baseline that was not found, a rate limit or a transport error ends with
\* a non-zero status, and a failed or expired command has been reported by
\* the failure notification before the process ends; a run without failure
\* ends with status 0.
C7_AsStated ==
    pc = "exit" =>
        /\ fatal \in FatalConditions => status # 0
        /\ fatal \in CaughtConditions => FailureNotified
        /\ fatal = "none" => status = 0

\* C8 as stated: no run ends on a fatal condition of the taxonomy without
\* notify_except having reported it.
C8_AsStated ==
    (pc = "exit" /\ fatal \in FatalConditions) => FailureNotified

\* the operator, or --yes, affirmed the publish prompt of log position k
Affirmed(k) ==
    /\ log[k].op = "ask_publish"
    /\ log[k].arg = IF args.assume_yes THEN "assume_yes" ELSE "y"

\* C9: every push and every push --tags of a version comes after the
\* outgoing commits of that version were listed and, after that, the
\* publish prompt of that version was affirmed (by the operator or by
\* --yes); a version whose prompt the operator declined has no push
\* command at all.
C9_PushOnlyAfterConfirmation ==
    /\ \A i \in 1..Len(log) :
          log[i].op \in {"push", "push --tags"} =>
              \E k \in EventsOf("ask_publish", log[i].kver) :
                  /\ k < i
                  /\ Affirmed(k)
                  /\ \E j \in EventsOf("log", log[i].kver) :
                         j < k /\ log[j].res = "ok"
    /\ \A k \in 1..Len(log) :
          (log[k].op = "ask_publish" /\ log[k].arg = "n") =>
              /\ EventsOf("push", log[k].kver) = {}
              /\ EventsOf("push --tags", log[k].kver) = {}

\* C9 witness: the operator declined to publish the first version and
\* agreed to publish the second, whose branch and tags were pushed
C9_Witness ==
    /\ ~args.assume_yes
    /\ Len(pending) >= 2
    /\ \E k \in 1..Len(log) :
          log[k].op = "ask_publish" /\ log[k].arg = "n" /\ log[k].kver = pending[1]
    /\ Succeeded("push", pending[2])
    /\ Succeeded("push --tags", pending[2])

\* positions of log where a push command expired
ExpiredPushes ==
    {i \in 1..Len(log) :
        log[i].op \in {"push", "push --tags"} /\ log[i].res = "expired"}

\* C10: an expired push ends the run as a failure: after it nothing is run
\* but the failure notification, which names the expired command; the
\* version's success notification is not issued and no later pending
\* version is touched.
C10_PushTimeoutIsFailure ==
    \A i \in ExpiredPushes :
        /\ pc \in {"except", "exit"}
        /\ fatal = "TimeoutExpired"
        /\ \A j \in (i + 1)..Len(log) :
              /\ log[j].op \in {"print_note", "email_note"}
              /\ log[j].arg = log[i].op
              /\ log[j].kver = log[i].kver
        /\ EventsOf("print_done", log[i].kver) = {}
        /\ \A k \in 1..Len(pending) :
              (k > idx) => Untouched(pending[k])
        /\ pending[idx] = log[i].kver
        /\ pc = "exit" =>
              \E j \in (i + 1)..Len(log) :
                  log[j].op = "print_note" /\ log[j].res = "expired"

\* C10 witness: the push of the tags of the first of two versions expired
\* and the run has ended
C10_Witness ==
    /\ pc = "exit"
    /\ Len(pending) = 2
    /\ idx = 1
    /\ \E i \in ExpiredPushes : log[i].op = "push --tags"

\* every run of the command op for version kver ended with status 0
CallOk(op, kver) ==
    LET runs == EventsOf(op, kver) IN
    runs # {} /\ \A i \in runs : log[i].res = "ok"

\* the operator declined to publish version kver
Declined(kver) == \E i \in EventsOf("ask_publish", kver) : log[i].arg = "n"

\* fetch, clean, build, record and tag of version kver all succeeded
RecordedAndTagged(kver) ==
    /\ CallOk("get-rpi-kernel-sources", kver)
    /\ CallOk("rmtree", kver)
    /\ CallOk("make", kver)
    /\ {log[i].arg : i \in EventsOf("make", kver)} = Range(RASPI_SUFFIXES)
    /\ CallOk("add", kver)
    /\ CallOk("commit", kver)
    /\ IF args.do_not_tag THEN EventsOf("tag", kver) = {} ELSE CallOk("tag", kver)

\* every step of version kver up to the success notification succeeded
PipelinePassed(kver) ==
    /\ CallOk("log", kver)
    /\ EventsOf("ask_publish", kver) # {}
    /\ \/ Declined(kver)
       \/ CallOk("push", kver) /\ CallOk("push --tags", kver)

\* C11 as stated: at the end of a run every version whose fetch, clean,
\* build, record and tag steps succeeded has had its success notification
\* issued exactly once.
C11_AsStated ==
    pc = "exit" =>
        \A k \in 1..Len(pending) :
            RecordedAndTagged(pending[k]) =>
                Cardinality(EventsOf("print_done", pending[k])) = 1

\* C11: the success notification of a version is printed at most once and
\* only after the outgoing commits were listed and the publish prompt was
\* either declined or followed by two successful pushes; once these steps
\* have passed, the notification is the next step and is printed exactly
\* once, whether publish was affirmed or declined; after it the run moves
\* to the next pending version (the only other outcome is a failed mail of
\* the notification in email mode), so a declined publish does not stop
\* the run.
C11_NotifiedOncePerPassedVersion ==
    \A k \in 1..Len(pending) :
        LET kver == pending[k]
            dones == EventsOf("print_done", kver)
            passed == PipelinePassed(kver) IN
        /\ Cardinality(dones) <= 1
        /\ dones # {} => passed
        /\ passed =>
              \/ idx = k /\ pc = "done" /\ dones = {}
              \/ /\ Cardinality(dones) = 1
                 /\ \/ idx > k
                    \/ /\ idx = k
                       /\ pc = "exit"
                       /\ fatal = "SMTPError"
                       /\ args.command = "email"
        /\ (idx > k /\ k < Len(pending) /\ Declined(kver)) =>
              \/ idx = k + 1 /\ pc = "fetch"
              \/ ~Untouched(pending[k + 1])

\* C11 witness: publish of the first version was declined, the version was
\* notified once, and the sources of the second version were fetched
C11_Witness ==
    /\ Len(pending) >= 2
    /\ Declined(pending[1])
    /\ Cardinality(EventsOf("print_done", pending[1])) = 1
    /\ CallOk("get-rpi-kernel-sources", pending[2])

\* C12 as stated: of two pipeline events of a run, the later one belongs to
\* the same version string or to a version that packaging.version ranks
\* strictly newer; so the executed versions are pairwise distinct as
\* versions, run in strictly ascending order, and one version's pipeline
\* is over before the next one starts.
C12_AsStated ==
    \A i, j \in 1..Len(log) :
        (i < j /\ log[i].kver # NoVersion /\ log[j].kver # NoVersion) =>
            \/ log[i].kver = log[j].kver
            \/ VersionLess(log[i].kver, log[j].kver)

\* a is older than b by the first component in which the two differ
FirstDifferenceLess(a, b) ==
    \E i \in 1..Min(Len(a), Len(b)) :
        /\ \A j \in 1..(i - 1) : a[j] = b[j]
        /\ a[i] < b[i]

\* s never places a version behind one that is newer by the first
\* differing component
NumericallyOrdered(s) ==
    \A i, j \in 1..Len(s) :
        i < j => ~FirstDifferenceLess(s[j], s[i])

\* C13: the stop test and the sort rank versions by the number in their
\* first differing component, not by their characters: during and after
\* the walk every announcement that is numerically newer than the baseline
\* (5.10 against 5.9) is pending and did not stop the walk, an announcement
\* numerically older than the baseline is the last commit the walk took,
\* and the list sorted at line 196 never has a numerically newer version
\* before an older one (5.9.1 comes before 5.10).
C13_NumericPrecedence ==
    /\ pc \in {"walk", "resolved", "pull", "sort", "truncate"} =>
          \A i \in 1..Len(feed) :
              LET nkver == KernelMatch(feed[i]) IN
              nkver # NoVersion =>
                  /\ FirstDifferenceLess(ckver, nkver) =>
                        /\ nkver \in Range(pending)
                        /\ i < Len(feed) \/ pc = "walk"
                  /\ FirstDifferenceLess(nkver, ckver) =>
                        /\ i = Len(feed)
                        /\ pc # "walk"
                        /\ nkver \notin Range(pending)
    /\ pc = "truncate" => NumericallyOrdered(pending)
    /\ NumericallyOrdered(sortedAll)

\* C13 witness: with baseline 5.9 the walk met 5.10, then 5.9.1, then 5.9,
\* and the sorted list is 5.9.1, 5.10
C13_Witness ==
    /\ pc = "truncate"
    /\ ckver = <<5, 9>>
    /\ Len(feed) = 3
    /\ KernelMatch(feed[1]) = <<5, 10>>
    /\ KernelMatch(feed[2]) = <<5, 9, 1>>
    /\ KernelMatch(feed[3]) = <<5, 9>>
    /\ pending = << <<5, 9, 1>>, <<5, 10>> >>

\* positions of last_commits whose message matches the taudac pattern
TaudacCommits ==
    {i \in 1..Len(last_commits) : TaudacMatch(last_commits[i]) # NoVersion}

\* one step of the baseline detection does what C14 says
BaselineStep ==
    /\ (pc = "baseline" /\ args.current_version # NoVersion) =>
          /\ ckver' = args.current_version
          /\ http' = http
          /\ pc' = "walk"
    /\ (pc = "baseline" /\ args.current_version = NoVersion) =>
          /\ http' = http + 1
          /\ Len(last_commits') <= 2
          /\ pc' \in {"scan", "exit"}
    /\ (pc = "scan" /\ TaudacCommits # {}) =>
          /\ \E i \in TaudacCommits :
                /\ \A j \in TaudacCommits : i <= j
                /\ ckver' = last_commits[i].ver
          /\ pc' = "walk"
    /\ (pc = "scan" /\ TaudacCommits = {}) =>
          /\ pc' = "exit"
          /\ fatal' = "BaselineNotFound"
    /\ ckver # NoVersion => ckver' = ckver

\* C14: with --current-version the override is the baseline and no request
\* is made to the downstream repository; without it one request fetches at
\* most 2 downstream commits and the baseline is the version named by the
\* first (newest) of them that matches the taudac pattern; when none
\* matches the run ends there, with no request to the upstream repository,
\* no prompt and no pipeline step; a baseline once set is kept.
C14_BaselineDetection ==
    /\ [][BaselineStep]_vars
    /\ [](fatal = "BaselineNotFound" =>
              /\ pc = "exit"
              /\ ckver = NoVersion
              /\ http = 1
              /\ feed = <<>>
              /\ pending = <<>>
              /\ log = <<>>)
    /\ [](pc \notin {"baseline", "scan", "exit"} => ckver # NoVersion)

\* C14 witness: without an override the baseline 5.10.0 was read from the
\* downstream commits with one request, and the walk is about to start
C14_Witness ==
    /\ pc = "walk"
    /\ args.current_version = NoVersion
    /\ ckver = <<5, 10, 0>>
    /\ http = 1
    /\ feed = <<>>

\* the target variants in the order the build has to follow
VariantOrder == <<"", "-v7", "-v7l", "-v8", "-v8-16k">>

\* place of a pipeline event in the fixed order of the steps of a version
StepRank(e) ==
    CASE e.op = "get-rpi-kernel-sources" -> 1
      [] e.op = "rmtree" -> 2
      [] e.op = "make" ->
            2 + (CHOOSE i \in 1..Len(VariantOrder) : VariantOrder[i] = e.arg)
      [] e.op = "add" -> 8
      [] e.op = "commit" -> 9
      [] e.op = "tag" -> 10
      [] e.op = "log" -> 11
      [] e.op = "ask_publish" -> 12
      [] e.op = "push" -> 13
      [] e.op = "push --tags" -> 14
      [] e.op = "print_done" -> 15
      [] e.op = "email_done" -> 16
      [] OTHER -> 0

\* the step that has to follow the successful step e of the same version;
\* 17 stands for the first step of the next version
StepAfter(e) ==
    CASE e.op = "commit" -> IF args.do_not_tag THEN 11 ELSE 10
      [] e.op = "ask_publish" ->
            IF e.arg \in {"y", "assume_yes"} THEN 13 ELSE 15
      [] e.op = "print_done" -> IF args.command = "email" THEN 16 ELSE 17
      [] OTHER -> StepRank(e) + 1

\* the commands that go through call(), which a log file makes run again
CallOps ==
    {"get-rpi-kernel-sources", "make", "add", "commit", "tag", "log",
     "push", "push --tags"}

\* the event b may come directly after the event a
Follows(a, b) ==
    IF a.op = "print_note" THEN b.op = "email_note"
    ELSE IF a.op = "email_note" THEN FALSE
    ELSE IF StepRank(a) = 0 THEN TRUE
    ELSE IF a.res \in {"error", "expired"}
    THEN b.op = "print_note" /\ b.kver = a.kver
    ELSE /\ StepRank(b) > 0
         /\ IF b.kver = a.kver
            THEN \/ StepRank(b) = StepAfter(a)
                 \/ /\ StepRank(b) = StepRank(a)
                    /\ a.op \in CallOps
                    /\ args.log_file
            ELSE StepAfter(a) = 17 /\ StepRank(b) = 1

\* C15: every event a step adds to the run keeps the fixed order of the
\* steps of a version: fetch, remove the old artifacts, build '', -v7,
\* -v7l, -v8, -v8-16k, stage, commit, tag (left out exactly when tagging is
\* disabled), list the outgoing commits, publish prompt, push and push of
\* the tags (exactly when the prompt was affirmed), notification; a version
\* starts with its fetch and only after the notification of the one
\* before; a step is followed by the next one only if it succeeded (a
\* command run again because of the log file counts as the same step), and
\* after a failed or expired step nothing follows but the failure report.
C15_FixedStepOrder ==
    [][/\ Len(log') >= Len(log)
       /\ SubSeq(log', 1, Len(log)) = log
       /\ \A j \in (Len(log) + 1)..Len(log') :
             /\ j > 1 => Follows(log'[j - 1], log'[j])
             /\ (/\ log'[j].kver # NoVersion
                 /\ j = 1 \/ log'[j - 1].kver = NoVersion) =>
                   StepRank(log'[j]) = 1]_vars

\* C15 witness: a version went through every step, tag and pushes
\* included, and the run ended after a later step of the run failed
C15_Witness ==
    /\ pc = "exit"
    /\ Len(pending) >= 2
    /\ CallOk("tag", pending[1])
    /\ CallOk("push --tags", pending[1])
    /\ EventsOf("print_done", pending[1]) # {}
    /\ \E i \in EventsOf("make", pending[2]) :
          log[i].arg = "-v8" /\ log[i].res = "error"

\* C16 as stated: no external command of the run (the pull, or a command
\* of some version's pipeline, a build taken per variant) is executed more
\* than once, with or without a log file.
C16_AsStated ==
    \A i, j \in 1..Len(log) :
        (i < j /\ log[i].op \in CallOps \cup {"pull"}) =>
            ~ /\ log[j].op = log[i].op
              /\ log[j].kver = log[i].kver
              /\ log[j].arg = log[i].arg

\* positions of the runs of git pull --ff-only
Pulls == {i \in 1..Len(log) : log[i].op = "pull"}

\* the whole-run confirmation was affirmed, by the operator or by --yes
BuildAffirmed ==
    \E i \in 1..Len(log) :
        log[i].op = "ask_build" /\ log[i].arg \in {"y", "assume_yes"}

\* C17 as stated: once the whole-run confirmation is affirmed the pull is
\* performed exactly once, before any pipeline step; after a failed pull no
\* pipeline step is performed for any version and the failure is reported
\* by the failure notification.
C17_AsStated ==
    /\ (BuildAffirmed /\ pc # "pull") => Cardinality(Pulls) = 1
    /\ \A i \in 1..Len(log) :
          log[i].op \in CallOps \cup {"rmtree"} =>
              \E p \in Pulls : p < i /\ log[p].res = "ok"
    /\ (\E p \in Pulls : log[p].res = "error") =>
          /\ \A i \in 1..Len(log) : log[i].op \notin CallOps \cup {"rmtree"}
          /\ pc \in {"except", "exit"}
          /\ pc = "exit" => FailureNotified

\* a request of the walk for HEAD~n found no commit: the endpoint answered
\* with an error other than the rate limit, or with an empty list
HistoryExhausted ==
    /\ ckver # NoVersion
    /\ code = 404 \/ fatal = "IndexError"

\* C18 as stated: a request of the walk that finds no commit ends the walk
\* as an ordinary end of iteration; it does not end the process, and the
\* pending list found so far goes on to the resolution.
C18_AsStated ==
    HistoryExhausted =>
        /\ fatal \notin {"HTTPError", "IndexError"}
        /\ pc # "walk"
        /\ pc = "exit" => status # 1 \/ fatal = "SMTPError"

\* uname -m of the 32-bit ARM hosts: ARMv6 or ARMv7, soft or hard float
Arm32Hosts == {"armv6l", "armv6hf", "armv7l", "armv7hf"}

\* the overrides a build of the variant suffix has to get on the host m
ExpectedOverrides(suffix, m) ==
    IF suffix \in {"", "-v7", "-v7l"}
    THEN IF m \in Arm32Hosts THEN "none" ELSE "CROSS_COMPILE_ARGS_32"
    ELSE IF m = "aarch64" THEN "none" ELSE "CROSS_COMPILE_ARGS_64"

\* C19: every build of a 32-bit variant ('', -v7, -v7l) is given the 32-bit
\* cross-compilation overrides unless the host is a 32-bit ARM machine, and
\* every build of a 64-bit variant (-v8, -v8-16k) the 64-bit overrides
\* unless the host is aarch64; a build on a host of its own class gets no
\* overrides.
C19_CrossCompileByClass ==
    \A i \in 1..Len(log) :
        log[i].op = "make" =>
            /\ machine # ""
            /\ log[i].arg \in {"", "-v7", "-v7l", "-v8", "-v8-16k"}
            /\ log[i].cross = ExpectedOverrides(log[i].arg, machine)

\* C19 witness: on an aarch64 host a 32-bit variant was built with the
\* 32-bit overrides and a 64-bit variant without overrides
C19_Witness ==
    /\ machine = "aarch64"
    /\ \E i, j \in 1..Len(log) :
          /\ log[i].op = "make" /\ log[i].arg = "-v7l"
          /\ log[i].cross = "CROSS_COMPILE_ARGS_32"
          /\ log[j].op = "make" /\ log[j].arg = "-v8-16k"
          /\ log[j].cross = "none"

\* C20: a failure caught by the handlers of lines 320-325 has its note
\* printed before any mail is attempted, whatever the delivery mode: a mail
\* of the note comes directly after the print of the same note, so a run
\* that ended on a caught failure has printed the note even when the mail
\* failed; a mail, of a note or of a success, is attempted only in email
\* mode.
C20_NotePrintedBeforeMail ==
    /\ \A j \in 1..Len(log) :
          /\ log[j].op = "email_note" =>
                /\ j > 1
                /\ log[j - 1].op = "print_note"
                /\ log[j - 1].arg = log[j].arg
                /\ log[j - 1].kver = log[j].kver
          /\ log[j].op \in {"email_note", "email_done"} =>
                args.command = "email"
          /\ log[j].op = "print_note" =>
                /\ fatal \in CaughtConditions
                /\ log[j].arg = exc.cmd
                /\ log[j].res =
                      IF fatal = "TimeoutExpired"
                      THEN "expired" ELSE "returned error code"
    /\ (pc = "exit" /\ fatal \in CaughtConditions) =>
          Cardinality({j \in 1..Len(log) : log[j].op = "print_note"}) = 1

\* C20 witness: in email mode the mail of the note failed after the note
\* of the failed command had been printed
C20_Witness ==
    /\ pc = "exit"
    /\ args.command = "email"
    /\ \E j \in 2..Len(log) :
          /\ log[j].op = "email_note" /\ log[j].res = "error"
          /\ log[j - 1].op = "print_note"

====
